---- MODULE Spec2Model ----
(***************************************************************************)
(* Model of the input-event core of clutter-android:                       *)
(*   - the backend event queue            (clutter/clutter-event.c)        *)
(*   - the multi-click synthesizer        (clutter/clutter-event.c)        *)
(*   - the Android command dispatcher     (clutter/android/                *)
(*                                         clutter-android-application.c)  *)
(* Each component has its own specification (SpecQueue, SpecClick,         *)
(* SpecApp); the variables of the other components stay unchanged.         *)
(***************************************************************************)
EXTENDS Integers, Sequences, FiniteSets, TLC

(* ---------------------------------------------------------------------- *)
(* Bounds of the model                                                     *)
(* ---------------------------------------------------------------------- *)
\* number of distinct event pointers handed to the queue
MaxEvents == 3
\* total number of pushes in one behaviour
MaxPush == 4

\* timestamps of button presses are 0..MaxTime
MaxTime == 2
\* press coordinates are 0..MaxX by 0..MaxY
MaxX == 2
MaxY == 1

\* native window and stage dimensions are 1..MaxDim
MaxDim == 2

\* The NULL pointer; event pointers are the numbers 1..MaxEvents.
NULL == 0

EventIds == 1..MaxEvents

VARIABLES
  \* ---- event queue (ClutterBackend.events_queue) ----
  events_queue,   \* <<>> when the pointer is NULL, else <<q>>, q the GQueue (head first)
  op,             \* the queue operation performed last
  ret,            \* the pointer returned by the last pop / peek (NULL for none)
  pending,        \* the gboolean returned by the last check_pending
  pushed,         \* history: every event passed to push, in call order
  popped,         \* history: every event returned by pop, in call order
  \* ---- multi-click detection (ClutterBackend) ----
  double_click_time,      \* setting: the double-click interval
  double_click_distance,  \* setting: the click distance
  button_click_time,      \* [0..1 -> time]   slot 0 / slot 1
  button_number,          \* [0..1 -> button], -1 when the slot is empty
  button_x,               \* [0..1 -> x]
  button_y,               \* [0..1 -> y]
  emitted,        \* the synthetic events put by the last _clutter_event_button_generate
  press_log,      \* history: the last two presses processed, most recent first
  press_tick,     \* history: parity of the number of presses processed
  click_run,      \* history: position (1, 2, 3) of the last press in a run of
                  \* presses that began with both slots empty, each at the
                  \* position and with the button of the one before and less
                  \* than the double-click interval after it; 0 outside a run
  \* ---- Android application (ClutterAndroidApplication) ----
  have_window,      \* application->have_window
  wait_for_window,  \* application->wait_for_window: "NULL", or the state of
                    \* the GMainLoop it points to: "running" / "quit"
  run_pc,           \* where clutter_android_application_run stands
  alive,            \* FALSE once exit () was called
  main_quit,        \* TRUE once clutter_main_quit () was called
  stage_size,       \* <<width, height>> recorded by the default stage
  onscreen_size,    \* <<width, height>> of the Cogl onscreen framebuffer
  last,             \* observation of the command handled last
  \* ---- event store (clutter_event_new / _copy / _free) ----
  event_hash,       \* the registry: the set of events currently allocated
  heap,             \* the fields of every allocated event
  ev_last,          \* observation of the store operation performed last
  \* ---- Android input (clutter_android_handle_input) ----
  pointer_stage,    \* the stage the core pointer device is associated with
  last_input,       \* observation of the input record handled last
  \* ---- clutter_keysym_to_unicode ----
  ks_table,         \* clutter_keysym_to_unicode_tab
  ks_pc,            \* "idle", "search" (inside the while loop) or "done"
  ks_keyval,        \* the argument of the call
  ks_min,           \* the local min
  ks_max,           \* the local max
  ks_result         \* the value returned

queue_vars == <<events_queue, op, ret, pending, pushed, popped>>

click_settings == <<double_click_time, double_click_distance>>

click_state == <<button_click_time, button_number, button_x, button_y>>

click_vars == <<double_click_time, double_click_distance, button_click_time,
                button_number, button_x, button_y, emitted, press_log,
                press_tick, click_run>>

app_vars == <<have_window, wait_for_window, run_pc, alive, main_quit,
              stage_size, onscreen_size, last>>

store_vars == <<event_hash, heap, ev_last>>

input_vars == <<pointer_stage, last_input>>

keysym_vars == <<ks_table, ks_pc, ks_keyval, ks_min, ks_max, ks_result>>

\* the variables of the components other than the queue, the click
\* detection and the command dispatcher
ext_vars == <<event_hash, heap, ev_last, pointer_stage, last_input,
              ks_table, ks_pc, ks_keyval, ks_min, ks_max, ks_result>>

vars == <<events_queue, op, ret, pending, pushed, popped,
          double_click_time, double_click_distance, button_click_time,
          button_number, button_x, button_y, emitted, press_log,
          press_tick, click_run,
          have_window, wait_for_window, run_pc, alive, main_quit,
          stage_size, onscreen_size, last,
          event_hash, heap, ev_last, pointer_stage, last_input,
          ks_table, ks_pc, ks_keyval, ks_min, ks_max, ks_result>>

(* ---------------------------------------------------------------------- *)
(* GQueue primitives used by clutter-event.c; a queue is a sequence whose   *)
(* first element is the head and whose last element is the tail.           *)
(* ---------------------------------------------------------------------- *)
g_queue_new == << >>

g_queue_push_tail(q, e) == Append(q, e)

g_queue_push_head(q, e) == <<e>> \o q

g_queue_peek_head(q) == IF q = << >> THEN NULL ELSE q[1]

g_queue_peek_tail(q) == IF q = << >> THEN NULL ELSE q[Len(q)]

\* the queue left behind by g_queue_pop_tail
g_queue_drop_tail(q) == IF q = << >> THEN q ELSE SubSeq(q, 1, Len(q) - 1)

g_queue_is_empty(q) == q = << >>

(* ---------------------------------------------------------------------- *)
(* Event queue operations                                                  *)
(* ---------------------------------------------------------------------- *)
\* faulty variant: the event is appended at the tail, the end pop removes from
queue_push_at_tail(event) ==
  /\ Len(pushed) < MaxPush
  /\ LET q == IF events_queue = << >> THEN g_queue_new ELSE events_queue[1]
     IN  events_queue' = << g_queue_push_tail(q, event) >>
  /\ pushed' = Append(pushed, event)
  /\ op' = "push"
  /\ UNCHANGED <<ret, pending, popped>>
  /\ UNCHANGED click_vars
  /\ UNCHANGED app_vars
  /\ UNCHANGED ext_vars

\* _clutter_event_queue_push: creates the queue on first use, inserts at the head
clutter_event_queue_push(event) ==
  /\ Len(pushed) < MaxPush
  /\ LET q == IF events_queue = << >> THEN g_queue_new ELSE events_queue[1]
     IN  events_queue' = << g_queue_push_head(q, event) >>
  /\ pushed' = Append(pushed, event)
  /\ op' = "push"
  /\ UNCHANGED <<ret, pending, popped>>
  /\ UNCHANGED click_vars
  /\ UNCHANGED app_vars
  /\ UNCHANGED ext_vars

\* _clutter_event_queue_pop: NULL without a queue, else g_queue_pop_tail
clutter_event_queue_pop ==
  /\ IF events_queue = << >>
       THEN /\ ret' = NULL
            /\ UNCHANGED events_queue
       ELSE /\ ret' = g_queue_peek_tail(events_queue[1])
            /\ events_queue' = << g_queue_drop_tail(events_queue[1]) >>
  /\ popped' = IF ret' = NULL THEN popped ELSE Append(popped, ret')
  /\ op' = "pop"
  /\ UNCHANGED <<pending, pushed>>
  /\ UNCHANGED click_vars
  /\ UNCHANGED app_vars
  /\ UNCHANGED ext_vars

\* faulty variant: peek inspects the head, the end push inserts at
queue_peek_at_head ==
  /\ ret' = IF events_queue = << >> THEN NULL
            ELSE g_queue_peek_head(events_queue[1])
  /\ op' = "peek"
  /\ UNCHANGED <<events_queue, pending, pushed, popped>>
  /\ UNCHANGED click_vars
  /\ UNCHANGED app_vars
  /\ UNCHANGED ext_vars

\* _clutter_event_queue_peek (and clutter_event_peek, which only forwards to
\* it): NULL without a queue, else g_queue_peek_tail
clutter_event_queue_peek ==
  /\ ret' = IF events_queue = << >> THEN NULL
            ELSE g_queue_peek_tail(events_queue[1])
  /\ op' = "peek"
  /\ UNCHANGED <<events_queue, pending, pushed, popped>>
  /\ UNCHANGED click_vars
  /\ UNCHANGED app_vars
  /\ UNCHANGED ext_vars

\* faulty variant: a created queue always counts as pending
queue_check_pending_created ==
  /\ pending' = (events_queue # << >>)
  /\ op' = "check_pending"
  /\ UNCHANGED <<events_queue, ret, pushed, popped>>
  /\ UNCHANGED click_vars
  /\ UNCHANGED app_vars
  /\ UNCHANGED ext_vars

\* _clutter_event_queue_check_pending
clutter_event_queue_check_pending ==
  /\ pending' = IF events_queue = << >> THEN FALSE
                ELSE g_queue_is_empty(events_queue[1]) = FALSE
  /\ op' = "check_pending"
  /\ UNCHANGED <<events_queue, ret, pushed, popped>>
  /\ UNCHANGED click_vars
  /\ UNCHANGED app_vars
  /\ UNCHANGED ext_vars

(* ---------------------------------------------------------------------- *)
(* Multi-click synthesis                                                   *)
(* ---------------------------------------------------------------------- *)
Times == 0..MaxTime

\* button numbers of the presses (the Android translator always uses 1)
Buttons == {0, 1}

\* the double-click interval settings tried
DoubleClickTimes == {1, 2}

\* the click distance settings tried
DoubleClickDistances == {0, 1}

XCoords == 0..MaxX

YCoords == 0..MaxY

\* the button presses handed to the synthesizer (ClutterButtonEvent)
ButtonPresses ==
  [type : {"BUTTON_PRESS"}, time : Times, button : Buttons,
   x : XCoords, y : YCoords]

ABS(v) == IF v < 0 THEN -v ELSE v

\* clutter_backend_put_event: the synthetic event is delivered through the
\* injection path; the model collects what one call delivers
clutter_backend_put_event(sink, event) == Append(sink, event)

\* _clutter_synthesize_click: a copy of the event with only the type overridden
clutter_synthesize_click(sink, event, n_clicks) ==
  LET temp_event == [event EXCEPT !.type = IF n_clicks = 2 THEN "2BUTTON_PRESS"
                                            ELSE "3BUTTON_PRESS"]
  IN  clutter_backend_put_event(sink, temp_event)

\* faulty variant: the triple-click test compares time and button only
triple_click_test_no_distance(event) ==
  /\ event.time < button_click_time[1] + 2 * double_click_time
  /\ event.button = button_number[1]

\* faulty variant: the triple-click test allows one interval, not two
triple_click_test_single_interval(event) ==
  /\ event.time < button_click_time[1] + double_click_time
  /\ event.button = button_number[1]
  /\ ABS(event.x - button_x[1]) <= double_click_distance
  /\ ABS(event.y - button_y[1]) <= double_click_distance

\* the condition of the first branch: the press against slot 1
triple_click_test(event) ==
  /\ event.time < button_click_time[1] + 2 * double_click_time
  /\ event.button = button_number[1]
  /\ ABS(event.x - button_x[1]) <= double_click_distance
  /\ ABS(event.y - button_y[1]) <= double_click_distance

\* the condition of the second branch: the press against slot 0
double_click_test(event) ==
  /\ event.time < button_click_time[0] + double_click_time
  /\ event.button = button_number[0]
  /\ ABS(event.x - button_x[0]) <= double_click_distance
  /\ ABS(event.y - button_y[0]) <= double_click_distance

\* faulty variant: after a triple click only slot 1 is reset, slot 0 keeps the press
generate_triple_keeps_slot0(event) ==
  /\ emitted' = clutter_synthesize_click(<< >>, event, 3)
  /\ button_click_time' = [button_click_time EXCEPT ![1] = 0]
  /\ button_number' = [button_number EXCEPT ![1] = -1]
  /\ button_x' = [button_x EXCEPT ![1] = 0]
  /\ button_y' = [button_y EXCEPT ![1] = 0]

\* first branch: synthesize a triple click, reset both slots
generate_triple(event) ==
  /\ emitted' = clutter_synthesize_click(<< >>, event, 3)
  /\ button_click_time' = [i \in 0..1 |-> 0]
  /\ button_number' = [i \in 0..1 |-> -1]
  /\ button_x' = [i \in 0..1 |-> 0]
  /\ button_y' = [i \in 0..1 |-> 0]

\* faulty variant: slot 0 is overwritten before it is copied to slot 1
generate_double_no_shift(event) ==
  /\ emitted' = clutter_synthesize_click(<< >>, event, 2)
  /\ button_click_time' = [i \in 0..1 |-> event.time]
  /\ button_number' = [i \in 0..1 |-> event.button]
  /\ button_x' = [i \in 0..1 |-> event.x]
  /\ button_y' = [i \in 0..1 |-> event.y]

\* second branch: synthesize a double click, shift slot 0 to slot 1, store
generate_double(event) ==
  /\ emitted' = clutter_synthesize_click(<< >>, event, 2)
  /\ button_click_time' = [i \in 0..1 |-> IF i = 1 THEN button_click_time[0]
                                          ELSE event.time]
  /\ button_number' = [i \in 0..1 |-> IF i = 1 THEN button_number[0]
                                      ELSE event.button]
  /\ button_x' = [i \in 0..1 |-> IF i = 1 THEN button_x[0] ELSE event.x]
  /\ button_y' = [i \in 0..1 |-> IF i = 1 THEN button_y[0] ELSE event.y]

\* third branch: nothing synthesized, slot 1 cleared, press stored in slot 0
generate_single(event) ==
  /\ emitted' = << >>
  /\ button_click_time' = [i \in 0..1 |-> IF i = 1 THEN 0 ELSE event.time]
  /\ button_number' = [i \in 0..1 |-> IF i = 1 THEN -1 ELSE event.button]
  /\ button_x' = [i \in 0..1 |-> IF i = 1 THEN 0 ELSE event.x]
  /\ button_y' = [i \in 0..1 |-> IF i = 1 THEN 0 ELSE event.y]

\* the press is recorded in the history of the last two presses
log_press(event) ==
  /\ press_tick' = 1 - press_tick
  /\ press_log' = IF press_log = << >> THEN <<event>>
                  ELSE <<event, press_log[1]>>

\* faulty variant: the double-click test is tried before the triple-click test
button_generate_double_first(event) ==
  /\ log_press(event)
  /\ IF double_click_test(event) THEN generate_double(event)
     ELSE IF triple_click_test(event) THEN generate_triple(event)
     ELSE generate_single(event)
  /\ UNCHANGED click_run
  /\ UNCHANGED click_settings
  /\ UNCHANGED queue_vars
  /\ UNCHANGED app_vars
  /\ UNCHANGED ext_vars

\* _clutter_event_button_generate
clutter_event_button_generate(event) ==
  /\ log_press(event)
  /\ IF triple_click_test(event) THEN generate_triple(event)
     ELSE IF double_click_test(event) THEN generate_double(event)
     ELSE generate_single(event)
  /\ UNCHANGED click_run
  /\ UNCHANGED click_settings
  /\ UNCHANGED queue_vars
  /\ UNCHANGED app_vars
  /\ UNCHANGED ext_vars

\* the press continues a run: same button and position as the press before
\* it and less than the double-click interval after it
continues_run(event) ==
  /\ press_log # << >>
  /\ event.button = press_log[1].button
  /\ event.x = press_log[1].x
  /\ event.y = press_log[1].y
  /\ event.time < press_log[1].time + double_click_time

\* both slots are as the backend initializes them
click_state_empty ==
  /\ button_click_time = [i \in 0..1 |-> 0]
  /\ button_number = [i \in 0..1 |-> -1]
  /\ button_x = [i \in 0..1 |-> 0]
  /\ button_y = [i \in 0..1 |-> 0]

\* _clutter_event_button_generate, with the position of the press in its
\* run kept as history
button_generate_in_run(event) ==
  /\ log_press(event)
  /\ IF triple_click_test(event) THEN generate_triple(event)
     ELSE IF double_click_test(event) THEN generate_double(event)
     ELSE generate_single(event)
  /\ click_run' = IF click_run > 0 /\ continues_run(event)
                    THEN (click_run % 3) + 1
                  ELSE IF click_state_empty THEN 1
                  ELSE 0
  /\ UNCHANGED click_settings
  /\ UNCHANGED queue_vars
  /\ UNCHANGED app_vars
  /\ UNCHANGED ext_vars

(* ---------------------------------------------------------------------- *)
(* The accessors clutter_event_get_time, _get_state and _get_coords        *)
(* ---------------------------------------------------------------------- *)
CLUTTER_CURRENT_TIME == 0

\* the types the switch of each of the three accessors has a case for
AccessorKeyTypes == {"KEY_PRESS", "KEY_RELEASE"}

AccessorPointerTypes ==
  {"BUTTON_PRESS", "2BUTTON_PRESS", "BUTTON_RELEASE", "MOTION", "SCROLL"}

clutter_event_get_time(event) ==
  IF event.type \in AccessorKeyTypes \cup AccessorPointerTypes
    THEN event.time
    ELSE CLUTTER_CURRENT_TIME

clutter_event_get_state(event) ==
  IF event.type \in AccessorKeyTypes \cup AccessorPointerTypes
    THEN event.modifier_state
    ELSE 0

\* the pair stored through x and y
clutter_event_get_coords(event) ==
  IF event.type \in AccessorPointerTypes
    THEN <<event.x, event.y>>
    ELSE <<0, 0>>

\* the modifier states of the presses explored: none, shift
ModifierStates == {0, 1}

\* button presses that carry a modifier state
ModifierPresses ==
  [type : {"BUTTON_PRESS"}, time : Times, button : {1}, x : XCoords,
   y : YCoords, modifier_state : ModifierStates]

\* the backend starts with its settings chosen by the platform and both
\* slots empty
InitClick ==
  /\ double_click_time \in DoubleClickTimes
  /\ double_click_distance \in DoubleClickDistances
  /\ button_click_time = [i \in 0..1 |-> 0]
  /\ button_number = [i \in 0..1 |-> -1]
  /\ button_x = [i \in 0..1 |-> 0]
  /\ button_y = [i \in 0..1 |-> 0]
  /\ emitted = << >>
  /\ press_log = << >>
  /\ press_tick = 0
  /\ click_run = 0

(* ---------------------------------------------------------------------- *)
(* Android application: command dispatcher and run                         *)
(* ---------------------------------------------------------------------- *)
Sizes == (1..MaxDim) \X (1..MaxDim)

\* app->window: << >> when NULL, else the <<width, height>> that
\* ANativeWindow_getWidth / ANativeWindow_getHeight report
NativeWindows == { << >> } \cup Sizes

\* commands whose case only logs
LoggedCmds == {"GAINED_FOCUS", "CONTENT_RECT_CHANGED", "LOST_FOCUS",
               "START", "STOP", "PAUSE", "DESTROY"}

\* commands of the glue the switch has no case for
UnhandledCmds == {"RESUME"}

\* what one call of clutter_android_handle_cmd did, with the state it found
Observation(cmd, window, accepted, ready_emitted, woke, resized, relayout) ==
  [cmd |-> cmd, window |-> window, accepted |-> accepted,
   ready_emitted |-> ready_emitted, woke |-> woke,
   resized |-> resized, relayout |-> relayout,
   had_window |-> have_window, had_waiter |-> wait_for_window # "NULL",
   stage_before |-> stage_size]

\* g_main_loop_quit (application->wait_for_window)
g_main_loop_quit(loop) == "quit"

\* faulty variant: the case does not test app->window
handle_init_window_ignores_null(window, accepted) ==
  /\ have_window' = IF accepted THEN TRUE ELSE have_window
  /\ wait_for_window' = IF wait_for_window # "NULL"
                          THEN g_main_loop_quit(wait_for_window)
                          ELSE wait_for_window
  /\ last' = Observation("INIT_WINDOW", window, accepted, 1,
                         wait_for_window # "NULL", FALSE, FALSE)
  /\ UNCHANGED <<run_pc, alive, main_quit, stage_size, onscreen_size>>

\* faulty variant: have_window takes the value the Ready handlers returned
handle_init_window_assigns(window, accepted) ==
  /\ IF window # << >>
       THEN /\ have_window' = accepted
            /\ wait_for_window' = IF wait_for_window # "NULL"
                                    THEN g_main_loop_quit(wait_for_window)
                                    ELSE wait_for_window
            /\ last' = Observation("INIT_WINDOW", window, accepted, 1,
                                   wait_for_window # "NULL", FALSE, FALSE)
       ELSE /\ UNCHANGED <<have_window, wait_for_window>>
            /\ last' = Observation("INIT_WINDOW", window, FALSE, 0,
                                   FALSE, FALSE, FALSE)
  /\ UNCHANGED <<run_pc, alive, main_quit, stage_size, onscreen_size>>

\* case APP_CMD_INIT_WINDOW; accepted is what the emission of "ready"
\* returned in initialized
handle_init_window(window, accepted) ==
  /\ IF window # << >>
       THEN /\ have_window' = IF accepted THEN TRUE ELSE have_window
            /\ wait_for_window' = IF wait_for_window # "NULL"
                                    THEN g_main_loop_quit(wait_for_window)
                                    ELSE wait_for_window
            /\ last' = Observation("INIT_WINDOW", window, accepted, 1,
                                   wait_for_window # "NULL", FALSE, FALSE)
       ELSE /\ UNCHANGED <<have_window, wait_for_window>>
            /\ last' = Observation("INIT_WINDOW", window, FALSE, 0,
                                   FALSE, FALSE, FALSE)
  /\ UNCHANGED <<run_pc, alive, main_quit, stage_size, onscreen_size>>

\* case APP_CMD_TERM_WINDOW: wake the waiter or quit the main loop, then
\* exit (0) in both cases
handle_term_window(window) ==
  /\ IF wait_for_window # "NULL"
       THEN /\ wait_for_window' = g_main_loop_quit(wait_for_window)
            /\ UNCHANGED main_quit
       ELSE /\ main_quit' = TRUE
            /\ UNCHANGED wait_for_window
  /\ alive' = FALSE
  /\ last' = Observation("TERM_WINDOW", window, FALSE, 0,
                         wait_for_window # "NULL", FALSE, FALSE)
  /\ UNCHANGED <<have_window, run_pc, stage_size, onscreen_size>>

\* clutter_actor_set_size on the stage: a size equal to the recorded one
\* changes nothing, another one is recorded and queues a relayout
clutter_actor_set_size(size, width, height) ==
  [size |-> <<width, height>>, relayout |-> size # <<width, height>>]

\* case APP_CMD_WINDOW_RESIZED
handle_window_resized(window) ==
  /\ IF window # << >>
       THEN LET set == clutter_actor_set_size(stage_size, window[1], window[2])
            IN  /\ stage_size' = set.size
                /\ last' = Observation("WINDOW_RESIZED", window, FALSE, 0,
                                       FALSE, set.size # stage_size,
                                       set.relayout)
       ELSE /\ UNCHANGED stage_size
            /\ last' = Observation("WINDOW_RESIZED", window, FALSE, 0,
                                   FALSE, FALSE, FALSE)
  /\ UNCHANGED <<have_window, wait_for_window, run_pc, alive, main_quit,
                 onscreen_size>>

\* faulty variant: only the width is compared with the stage's
handle_window_redraw_needed_width_only(window) ==
  /\ IF window # << >> /\ stage_size[1] # window[1]
       THEN /\ onscreen_size' = <<window[1], window[2]>>
            /\ last' = Observation("WINDOW_REDRAW_NEEDED", window, FALSE, 0,
                                   FALSE, TRUE, TRUE)
       ELSE /\ UNCHANGED onscreen_size
            /\ last' = Observation("WINDOW_REDRAW_NEEDED", window, FALSE, 0,
                                   FALSE, FALSE, FALSE)
  /\ UNCHANGED <<have_window, wait_for_window, run_pc, alive, main_quit,
                 stage_size>>

\* case APP_CMD_WINDOW_REDRAW_NEEDED: cogl_android_onscreen_update_size and
\* clutter_actor_queue_relayout when the window's width or height is not the
\* stage's; the stage's own size is left alone
handle_window_redraw_needed(window) ==
  /\ IF window # << >> /\ (stage_size[1] # window[1] \/ stage_size[2] # window[2])
       THEN /\ onscreen_size' = <<window[1], window[2]>>
            /\ last' = Observation("WINDOW_REDRAW_NEEDED", window, FALSE, 0,
                                   FALSE, TRUE, TRUE)
       ELSE /\ UNCHANGED onscreen_size
            /\ last' = Observation("WINDOW_REDRAW_NEEDED", window, FALSE, 0,
                                   FALSE, FALSE, FALSE)
  /\ UNCHANGED <<have_window, wait_for_window, run_pc, alive, main_quit,
                 stage_size>>

\* faulty variant: APP_CMD_DESTROY ends the process
handle_logged_only_destroy_exits(cmd, window) ==
  /\ last' = Observation(cmd, window, FALSE, 0, FALSE, FALSE, FALSE)
  /\ alive' = (cmd # "DESTROY")
  /\ UNCHANGED <<have_window, wait_for_window, run_pc, main_quit,
                 stage_size, onscreen_size>>

\* the cases that only log, and the commands without a case
handle_logged_only(cmd, window) ==
  /\ last' = Observation(cmd, window, FALSE, 0, FALSE, FALSE, FALSE)
  /\ UNCHANGED <<have_window, wait_for_window, run_pc, alive, main_quit,
                 stage_size, onscreen_size>>

\* clutter_android_handle_cmd, called by the glue while the process lives
clutter_android_handle_cmd(cmd, window, accepted) ==
  /\ alive
  /\ CASE cmd = "INIT_WINDOW" -> handle_init_window(window, accepted)
       [] cmd = "TERM_WINDOW" -> handle_term_window(window)
       [] cmd = "WINDOW_RESIZED" -> handle_window_resized(window)
       [] cmd = "WINDOW_REDRAW_NEEDED" -> handle_window_redraw_needed(window)
       [] OTHER -> handle_logged_only(cmd, window)
  /\ UNCHANGED queue_vars
  /\ UNCHANGED click_vars
  /\ UNCHANGED ext_vars

\* faulty variant: run waits for a window even when it already has one
application_run_enter_always_waits ==
  /\ alive
  /\ run_pc = "not_called"
  /\ wait_for_window' = "running"
  /\ run_pc' = "waiting"
  /\ UNCHANGED <<have_window, alive, main_quit, stage_size, onscreen_size, last>>
  /\ UNCHANGED queue_vars
  /\ UNCHANGED click_vars
  /\ UNCHANGED ext_vars

\* clutter_android_application_run up to the point where it blocks in
\* g_main_loop_run or enters clutter_main
application_run_enter ==
  /\ alive
  /\ run_pc = "not_called"
  /\ IF ~have_window
       THEN /\ wait_for_window' = "running"
            /\ run_pc' = "waiting"
       ELSE /\ run_pc' = "main"
            /\ UNCHANGED wait_for_window
  /\ UNCHANGED <<have_window, alive, main_quit, stage_size, onscreen_size, last>>
  /\ UNCHANGED queue_vars
  /\ UNCHANGED click_vars
  /\ UNCHANGED ext_vars

\* clutter_android_application_run after g_main_loop_run returned: the loop
\* is released, the handle cleared and clutter_main entered
application_run_resume ==
  /\ alive
  /\ run_pc = "waiting"
  /\ wait_for_window = "quit"
  /\ wait_for_window' = "NULL"
  /\ run_pc' = "main"
  /\ UNCHANGED <<have_window, alive, main_quit, stage_size, onscreen_size, last>>
  /\ UNCHANGED queue_vars
  /\ UNCHANGED click_vars
  /\ UNCHANGED ext_vars

\* android_main: the application object is fresh, run was not called yet
InitApp ==
  /\ have_window = FALSE
  /\ wait_for_window = "NULL"
  /\ run_pc = "not_called"
  /\ alive = TRUE
  /\ main_quit = FALSE
  /\ stage_size \in Sizes
  /\ onscreen_size = stage_size
  /\ last = [cmd |-> "NONE", window |-> << >>, accepted |-> FALSE,
             ready_emitted |-> 0, woke |-> FALSE, resized |-> FALSE,
             relayout |-> FALSE, had_window |-> FALSE, had_waiter |-> FALSE,
             stage_before |-> stage_size]

(* ---------------------------------------------------------------------- *)
(* The event store of clutter-event.c: clutter_event_new, _copy and _free  *)
(* and the registry event_hash.  An event is a record of the fields the    *)
(* sources read and write; a pointer to an event is a number of EventIds.  *)
(* ---------------------------------------------------------------------- *)
EventTypes == {"NOTHING", "KEY_PRESS", "KEY_RELEASE", "MOTION",
               "BUTTON_PRESS", "BUTTON_RELEASE"}

\* the event left by g_slice_new0 and the assignment of the type
ZeroEvent(type) ==
  [type |-> type, stage |-> "NULL", time |-> 0, modifier_state |-> 0,
   button |-> 0, click_count |-> 0, device |-> "NULL", x |-> 0, y |-> 0,
   unicode_value |-> 0]

\* the heap after g_slice_new0 returned the unused address new
heap_alloc(h, new, event) ==
  [e \in (DOMAIN h) \cup {new} |-> IF e = new THEN event ELSE h[e]]

\* the heap after g_slice_free released the address event
heap_release(h, event) == [e \in (DOMAIN h) \ {event} |-> h[e]]

StoreObservation(o, arg, r) == [op |-> o, arg |-> arg, ret |-> r]

clutter_event_new(type) ==
  \E new \in EventIds \ event_hash :
    /\ heap' = heap_alloc(heap, new, ZeroEvent(type))
    /\ event_hash' = event_hash \cup {new}
    /\ ev_last' = StoreObservation("new", NULL, new)
    /\ UNCHANGED queue_vars
    /\ UNCHANGED click_vars
    /\ UNCHANGED app_vars
    /\ UNCHANGED input_vars
    /\ UNCHANGED keysym_vars

\* faulty variant: the copy is the event itself, no new event is allocated
event_copy_returns_argument(event) ==
  /\ event \in event_hash \cup {NULL}
  /\ ev_last' = StoreObservation("copy", event, event)
  /\ UNCHANGED <<heap, event_hash>>
  /\ UNCHANGED queue_vars
  /\ UNCHANGED click_vars
  /\ UNCHANGED app_vars
  /\ UNCHANGED input_vars
  /\ UNCHANGED keysym_vars

\* event is NULL or points to an allocated event
clutter_event_copy(event) ==
  /\ event \in event_hash \cup {NULL}
  /\ IF event = NULL
       THEN /\ ev_last' = StoreObservation("copy", NULL, NULL)
            /\ UNCHANGED <<heap, event_hash>>
       ELSE \E new_event \in EventIds \ event_hash :
              /\ heap' = heap_alloc(heap, new_event, heap[event])
              /\ event_hash' = event_hash \cup {new_event}
              /\ ev_last' = StoreObservation("copy", event, new_event)
  /\ UNCHANGED queue_vars
  /\ UNCHANGED click_vars
  /\ UNCHANGED app_vars
  /\ UNCHANGED input_vars
  /\ UNCHANGED keysym_vars

\* event is NULL or points to an allocated event
clutter_event_free(event) ==
  /\ event \in event_hash \cup {NULL}
  /\ IF event = NULL
       THEN UNCHANGED <<heap, event_hash>>
       ELSE /\ event_hash' = event_hash \ {event}
            /\ heap' = heap_release(heap, event)
  /\ ev_last' = StoreObservation("free", event, NULL)
  /\ UNCHANGED queue_vars
  /\ UNCHANGED click_vars
  /\ UNCHANGED app_vars
  /\ UNCHANGED input_vars
  /\ UNCHANGED keysym_vars

\* a holder of an event assigns one of its fields, as the translators of
\* the Android backend do with event->button.time
event_set_time(event, time) ==
  /\ event \in event_hash
  /\ heap' = [heap EXCEPT ![event].time = time]
  /\ ev_last' = StoreObservation("set_time", event, NULL)
  /\ UNCHANGED event_hash
  /\ UNCHANGED queue_vars
  /\ UNCHANGED click_vars
  /\ UNCHANGED app_vars
  /\ UNCHANGED input_vars
  /\ UNCHANGED keysym_vars

\* clutter_event_put: a copy of the event is pushed on the queue
clutter_event_put(event) ==
  /\ event \in event_hash
  /\ Len(pushed) < MaxPush
  /\ \E event_copy \in EventIds \ event_hash :
       /\ heap' = heap_alloc(heap, event_copy, heap[event])
       /\ event_hash' = event_hash \cup {event_copy}
       /\ ev_last' = StoreObservation("put", event, event_copy)
       /\ events_queue' = <<g_queue_push_head(
              IF events_queue = << >> THEN g_queue_new ELSE events_queue[1],
              event_copy)>>
       /\ pushed' = Append(pushed, event_copy)
  /\ op' = "push"
  /\ UNCHANGED <<ret, pending, popped>>
  /\ UNCHANGED click_vars
  /\ UNCHANGED app_vars
  /\ UNCHANGED input_vars
  /\ UNCHANGED keysym_vars

InitStore ==
  /\ event_hash = {}
  /\ heap = << >>
  /\ ev_last = StoreObservation("init", NULL, NULL)

(* ---------------------------------------------------------------------- *)
(* Android input: clutter_android_handle_input and its two translators.    *)
(* A native input record is the record of what the NDK accessors return    *)
(* for it.                                                                 *)
(* ---------------------------------------------------------------------- *)
AMOTION_EVENT_ACTION_MASK == 255
AMOTION_EVENT_ACTION_DOWN == 0
AMOTION_EVENT_ACTION_UP == 1
AMOTION_EVENT_ACTION_MOVE == 2
AKEY_STATE_UP == 0
AKEY_STATE_DOWN == 1
AKEY_STATE_VIRTUAL == 2
CLUTTER_BUTTON1_MASK == 256

\* action & AMOTION_EVENT_ACTION_MASK, for a non-negative action
ActionMasked(action) == action % (AMOTION_EVENT_ACTION_MASK + 1)

\* the values of AMotionEvent_getAction explored: down, up, move, cancel,
\* and a move and a pointer-down that carry a pointer index in the bits
\* above the mask
MotionActions == {0, 1, 2, 3, 256 + 2, 256 + 5}

\* the values of AMotionEvent_getMetaState explored: none, shift, alt, sym
MetaStates == {0, 1, 2, 4}

\* the values of AKeyEvent_getAction explored: down, up
KeyActions == {0, 1}

\* time, x and y of the records explored; x differs from y in each
Samples == {<<1, 1, 2>>, <<MaxTime, 2, 1>>}

NativeRecord(type, action, meta_state, sample, key_code) ==
  [type |-> type, action |-> action, meta_state |-> meta_state,
   time |-> sample[1], x |-> sample[2], y |-> sample[3],
   key_code |-> key_code]

\* motion records; key records (action is what AKeyEvent_getAction
\* returns); a record of another type
InputRecords ==
  {NativeRecord("MOTION", a, m, s, 0) :
      a \in MotionActions, m \in {0, 1}, s \in Samples}
  \cup {NativeRecord("KEY", a, m, <<1, 0, 0>>, 29) :
      a \in KeyActions, m \in MetaStates}
  \cup {NativeRecord("OTHER", 0, 0, <<1, 0, 0>>, 0)}

\* the result of a translator: its return value, the event as it leaves
\* it, and the stage of the core pointer device as it leaves it
Translated(process, event, device_stage) ==
  [process |-> process, event |-> event, device_stage |-> device_stage]

\* faulty variant: the action is compared without masking it
translate_motion_event_unmasked(event, a_event, device_stage) ==
  LET action == a_event.action
      button(type) == [event EXCEPT !.type = type, !.button = 1,
                          !.click_count = 1, !.device = "pointer_device",
                          !.time = a_event.time, !.x = a_event.x,
                          !.y = a_event.y]
  IN  CASE action = AMOTION_EVENT_ACTION_DOWN ->
             Translated(TRUE, button("BUTTON_PRESS"), event.stage)
        [] action = AMOTION_EVENT_ACTION_UP ->
             Translated(TRUE, button("BUTTON_RELEASE"), event.stage)
        [] action = AMOTION_EVENT_ACTION_MOVE ->
             Translated(TRUE,
                        [event EXCEPT !.type = "MOTION",
                            !.device = "pointer_device",
                            !.modifier_state = CLUTTER_BUTTON1_MASK,
                            !.time = a_event.time, !.x = a_event.x,
                            !.y = a_event.y],
                        event.stage)
        [] OTHER -> Translated(FALSE, event, event.stage)

translate_motion_event(event, a_event, device_stage) ==
  LET action == a_event.action
      button(type) == [event EXCEPT !.type = type, !.button = 1,
                          !.click_count = 1, !.device = "pointer_device",
                          !.time = a_event.time, !.x = a_event.x,
                          !.y = a_event.y]
  IN  CASE ActionMasked(action) = AMOTION_EVENT_ACTION_DOWN ->
             Translated(TRUE, button("BUTTON_PRESS"), event.stage)
        [] ActionMasked(action) = AMOTION_EVENT_ACTION_UP ->
             Translated(TRUE, button("BUTTON_RELEASE"), event.stage)
        [] ActionMasked(action) = AMOTION_EVENT_ACTION_MOVE ->
             Translated(TRUE,
                        [event EXCEPT !.type = "MOTION",
                            !.device = "pointer_device",
                            !.modifier_state = CLUTTER_BUTTON1_MASK,
                            !.time = a_event.time, !.x = a_event.x,
                            !.y = a_event.y],
                        event.stage)
        [] OTHER -> Translated(FALSE, event, event.stage)

\* faulty variant: the key translator associates the pointer device with
\* the stage of the event, as the motion translator does
translate_key_event_sets_stage(event, a_event, device_stage) ==
  LET state == a_event.meta_state
      keyed == [event EXCEPT !.unicode_value = a_event.key_code]
  IN  CASE state = AKEY_STATE_UP ->
             Translated(TRUE, [keyed EXCEPT !.type = "KEY_RELEASE"],
                        event.stage)
        [] state \in {AKEY_STATE_DOWN, AKEY_STATE_VIRTUAL} ->
             Translated(TRUE, [keyed EXCEPT !.type = "KEY_PRESS"],
                        event.stage)
        [] OTHER -> Translated(FALSE, keyed, event.stage)

\* the value switched on is what AMotionEvent_getMetaState returns
translate_key_event(event, a_event, device_stage) ==
  LET state == a_event.meta_state
      keyed == [event EXCEPT !.unicode_value = a_event.key_code]
  IN  CASE state = AKEY_STATE_UP ->
             Translated(TRUE, [keyed EXCEPT !.type = "KEY_RELEASE"],
                        device_stage)
        [] state \in {AKEY_STATE_DOWN, AKEY_STATE_VIRTUAL} ->
             Translated(TRUE, [keyed EXCEPT !.type = "KEY_PRESS"],
                        device_stage)
        [] OTHER -> Translated(FALSE, keyed, device_stage)

\* _clutter_event_push (event, FALSE): the event itself goes on the queue
clutter_event_push(eq, event) ==
  <<g_queue_push_head(IF eq = << >> THEN g_queue_new ELSE eq[1], event)>>

InputObservation(a_event, event, process, stage_before) ==
  [a_event |-> a_event, event |-> event, process |-> process,
   stage_before |-> stage_before]

\* faulty variant: the event is pushed whatever the translator returned
handle_input_pushes_always(a_event) ==
  /\ Len(pushed) < MaxPush
  /\ \E event \in EventIds \ event_hash :
       LET new_event == [ZeroEvent("NOTHING") EXCEPT !.stage = "stage"]
           t == CASE a_event.type = "KEY" ->
                       translate_key_event(new_event, a_event, pointer_stage)
                  [] a_event.type = "MOTION" ->
                       translate_motion_event(new_event, a_event, pointer_stage)
                  [] OTHER -> Translated(FALSE, new_event, pointer_stage)
       IN  /\ event_hash' = event_hash \cup {event}
           /\ heap' = heap_alloc(heap, event, t.event)
           /\ ev_last' = StoreObservation("new", NULL, event)
           /\ pointer_stage' = t.device_stage
           /\ events_queue' = clutter_event_push(events_queue, event)
           /\ pushed' = Append(pushed, event)
           /\ op' = "push"
           /\ last_input' = InputObservation(a_event, event, t.process,
                                             pointer_stage)
  /\ UNCHANGED <<ret, pending, popped>>
  /\ UNCHANGED click_vars
  /\ UNCHANGED app_vars
  /\ UNCHANGED keysym_vars

clutter_android_handle_input(a_event) ==
  /\ Len(pushed) < MaxPush
  /\ \E event \in EventIds \ event_hash :
       LET new_event == [ZeroEvent("NOTHING") EXCEPT !.stage = "stage"]
           t == CASE a_event.type = "KEY" ->
                       translate_key_event(new_event, a_event, pointer_stage)
                  [] a_event.type = "MOTION" ->
                       translate_motion_event(new_event, a_event, pointer_stage)
                  [] OTHER -> Translated(FALSE, new_event, pointer_stage)
       IN  /\ event_hash' = event_hash \cup {event}
           /\ heap' = heap_alloc(heap, event, t.event)
           /\ ev_last' = StoreObservation("new", NULL, event)
           /\ pointer_stage' = t.device_stage
           /\ IF t.process
                THEN /\ events_queue' = clutter_event_push(events_queue, event)
                     /\ pushed' = Append(pushed, event)
                     /\ op' = "push"
                ELSE UNCHANGED <<events_queue, pushed, op>>
           /\ last_input' = InputObservation(a_event, event, t.process,
                                             pointer_stage)
  /\ UNCHANGED <<ret, pending, popped>>
  /\ UNCHANGED click_vars
  /\ UNCHANGED app_vars
  /\ UNCHANGED keysym_vars

\* the consumer of the queue: event = clutter_event_get (), then
\* clutter_event_free (event), which does nothing for NULL
event_get_and_free ==
  /\ IF events_queue = << >>
       THEN /\ ret' = NULL
            /\ UNCHANGED events_queue
       ELSE /\ ret' = g_queue_peek_tail(events_queue[1])
            /\ events_queue' = << g_queue_drop_tail(events_queue[1]) >>
  /\ popped' = IF ret' = NULL THEN popped ELSE Append(popped, ret')
  /\ op' = "pop"
  /\ IF ret' = NULL
       THEN UNCHANGED <<heap, event_hash>>
       ELSE /\ event_hash' = event_hash \ {ret'}
            /\ heap' = heap_release(heap, ret')
  /\ ev_last' = StoreObservation("free", ret', NULL)
  /\ UNCHANGED <<pending, pushed>>
  /\ UNCHANGED click_vars
  /\ UNCHANGED app_vars
  /\ UNCHANGED input_vars
  /\ UNCHANGED keysym_vars

InitInput ==
  /\ pointer_stage = "NULL"
  /\ last_input = InputObservation(NativeRecord("NONE", 0, 0, <<0, 0, 0>>, 0),
                                   NULL, FALSE, "NULL")

(* ---------------------------------------------------------------------- *)
(* clutter_keysym_to_unicode.  The table clutter_keysym_to_unicode_tab is  *)
(* declared in clutter-keysyms-table.h: a static array of (keysym, ucs)    *)
(* pairs sorted by keysym.  The lookup is explored over every sorted table *)
(* made of a few of its entries.                                           *)
(* ---------------------------------------------------------------------- *)
KeysymEntry(keysym, ucs) == [keysym |-> keysym, ucs |-> ucs]

\* 0x01a1 Aogonek, 0x01a5 Lcaron, 0x02a1 Hstroke, 0x13bc OE, 0x20ac EuroSign
KeysymEntries ==
  {KeysymEntry(417, 260), KeysymEntry(421, 317), KeysymEntry(673, 294),
   KeysymEntry(5052, 338), KeysymEntry(8364, 8364)}

\* the entries of E in increasing order of keysym
SortedTable(E) ==
  CHOOSE t \in [1..Cardinality(E) -> E] :
    \A i \in 1..Cardinality(E), j \in 1..Cardinality(E) :
       i < j => t[i].keysym < t[j].keysym

KeysymTables == {SortedTable(E) : E \in (SUBSET KeysymEntries) \ {{}}}

\* the arguments explored: the borders of the two Latin-1 ranges, keysyms
\* of the table and their neighbours, directly encoded UCS characters
\* (0x01000041, 0x010020ac, 0x01ffffff, 0x01000000), and values whose top
\* byte is neither 0 nor 1 (0x02000041, 0x110001a1, 0x7fffffff)
Keyvals ==
  {0, 31, 32, 65, 126, 127, 159, 160, 255, 256,
   416, 417, 418, 421, 673, 674, 5052, 8363, 8364, 8365, 65535,
   16777281, 16785580, 33554431, 16777216,
   33554497, 285213089, 2147483647}

IsLatin1(keyval) ==
  \/ keyval >= 32 /\ keyval <= 126
  \/ keyval >= 160 /\ keyval <= 255

\* (keyval & 0xff000000) == 0x01000000, keyval a guint
IsDirectUcs(keyval) == (keyval \div 16777216) % 256 = 1

\* keyval & 0x00ffffff
DirectUcs(keyval) == keyval % 16777216

\* clutter_keysym_to_unicode_tab[mid], mid counted from 0
Tab(mid) == ks_table[mid + 1]

KeysymDone(result) ==
  /\ ks_pc' = "done"
  /\ ks_result' = result

\* the call up to the while loop
keysym_to_unicode_enter(keyval) ==
  /\ ks_pc \in {"idle", "done"}
  /\ ks_keyval' = keyval
  /\ ks_min' = 0
  /\ ks_max' = Len(ks_table) - 1
  /\ IF IsLatin1(keyval) THEN KeysymDone(keyval)
     ELSE IF IsDirectUcs(keyval) THEN KeysymDone(DirectUcs(keyval))
     ELSE ks_pc' = "search" /\ UNCHANGED ks_result
  /\ UNCHANGED ks_table
  /\ UNCHANGED queue_vars
  /\ UNCHANGED click_vars
  /\ UNCHANGED app_vars
  /\ UNCHANGED store_vars
  /\ UNCHANGED input_vars

\* faulty variant: the lower half is dropped without stepping past mid
keysym_search_keeps_mid ==
  /\ ks_pc = "search"
  /\ IF ks_max >= ks_min
       THEN LET mid == (ks_min + ks_max) \div 2
            IN  IF Tab(mid).keysym < ks_keyval
                  THEN /\ ks_min' = mid
                       /\ UNCHANGED <<ks_max, ks_pc, ks_result>>
                ELSE IF Tab(mid).keysym > ks_keyval
                  THEN /\ ks_max' = mid - 1
                       /\ UNCHANGED <<ks_min, ks_pc, ks_result>>
                ELSE /\ KeysymDone(Tab(mid).ucs)
                     /\ UNCHANGED <<ks_min, ks_max>>
       ELSE /\ KeysymDone(0)
            /\ UNCHANGED <<ks_min, ks_max>>
  /\ UNCHANGED <<ks_table, ks_keyval>>
  /\ UNCHANGED queue_vars
  /\ UNCHANGED click_vars
  /\ UNCHANGED app_vars
  /\ UNCHANGED store_vars
  /\ UNCHANGED input_vars

\* one test of the loop condition: an iteration, or the exit with 0
keysym_search_step ==
  /\ ks_pc = "search"
  /\ IF ks_max >= ks_min
       THEN LET mid == (ks_min + ks_max) \div 2
            IN  IF Tab(mid).keysym < ks_keyval
                  THEN /\ ks_min' = mid + 1
                       /\ UNCHANGED <<ks_max, ks_pc, ks_result>>
                ELSE IF Tab(mid).keysym > ks_keyval
                  THEN /\ ks_max' = mid - 1
                       /\ UNCHANGED <<ks_min, ks_pc, ks_result>>
                ELSE /\ KeysymDone(Tab(mid).ucs)
                     /\ UNCHANGED <<ks_min, ks_max>>
       ELSE /\ KeysymDone(0)
            /\ UNCHANGED <<ks_min, ks_max>>
  /\ UNCHANGED <<ks_table, ks_keyval>>
  /\ UNCHANGED queue_vars
  /\ UNCHANGED click_vars
  /\ UNCHANGED app_vars
  /\ UNCHANGED store_vars
  /\ UNCHANGED input_vars

InitKeysym ==
  /\ ks_table \in KeysymTables
  /\ ks_pc = "idle"
  /\ ks_keyval = 0
  /\ ks_min = 0
  /\ ks_max = 0
  /\ ks_result = 0

KeysymAtRest == InitKeysym /\ ks_table = <<KeysymEntry(417, 260)>>

InitQueue ==
  /\ events_queue = << >>
  /\ op = "init"
  /\ ret = NULL
  /\ pending = FALSE
  /\ pushed = << >>
  /\ popped = << >>

\* one setting of the other components, for the specification of a
\* component that never reads them
ClickAtRest == InitClick /\ double_click_time = 2 /\ double_click_distance = 1

AppAtRest == InitApp /\ stage_size = <<1, 1>>

ExtAtRest == InitStore /\ InitInput /\ KeysymAtRest

Init == InitQueue /\ InitClick /\ InitApp /\ InitStore /\ InitInput /\ InitKeysym

QueueInit == InitQueue /\ ClickAtRest /\ AppAtRest /\ ExtAtRest

ClickInit == InitQueue /\ InitClick /\ AppAtRest /\ ExtAtRest

AppInit == InitQueue /\ ClickAtRest /\ InitApp /\ ExtAtRest

EventInit == InitQueue /\ ClickAtRest /\ AppAtRest /\ ExtAtRest

NextQueue ==
  \/ \E event \in EventIds : clutter_event_queue_push(event)
  \/ clutter_event_queue_pop
  \/ clutter_event_queue_peek
  \/ clutter_event_queue_check_pending

SpecQueue == QueueInit /\ [][NextQueue]_vars

NextClick == \E event \in ButtonPresses : clutter_event_button_generate(event)

SpecClick == ClickInit /\ [][NextClick]_vars

AccessorInit == InitQueue /\ ClickAtRest /\ AppAtRest /\ ExtAtRest

\* presses with a modifier state go through the click detection; the
\* accessors are applied to what it emits
NextAccessor ==
  \E event \in ModifierPresses : clutter_event_button_generate(event)

SpecAccessor == AccessorInit /\ [][NextAccessor]_vars

ClickRunInit == InitQueue /\ InitClick /\ AppAtRest /\ ExtAtRest

\* the presses of the runs explored lie on one line
RunPresses == {event \in ButtonPresses : event.y = 0}

NextClickRun == \E event \in RunPresses : button_generate_in_run(event)

SpecClickRun == ClickRunInit /\ [][NextClickRun]_vars

Cmds == {"INIT_WINDOW", "TERM_WINDOW", "WINDOW_RESIZED", "WINDOW_REDRAW_NEEDED"}
          \cup LoggedCmds \cup UnhandledCmds

NextApp ==
  \/ \E cmd \in Cmds, window \in NativeWindows :
        \E accepted \in (IF cmd = "INIT_WINDOW" THEN BOOLEAN ELSE {FALSE}) :
           clutter_android_handle_cmd(cmd, window, accepted)
  \/ application_run_enter
  \/ application_run_resume

SpecApp == AppInit /\ [][NextApp]_vars

\* the event store alone: events are created, copied, written and freed
NextEvent ==
  \/ \E type \in {"NOTHING", "MOTION"} : clutter_event_new(type)
  \/ \E event \in EventIds \cup {NULL} : clutter_event_copy(event)
  \/ \E event \in EventIds \cup {NULL} : clutter_event_free(event)
  \/ \E event \in EventIds, time \in 1..MaxTime : event_set_time(event, time)

SpecEvent == EventInit /\ [][NextEvent]_vars

StoreInit == InitQueue /\ ClickAtRest /\ AppAtRest /\ ExtAtRest

\* the event store together with the queue: allocated events are pushed,
\* put, peeked, popped and freed in any order
NextStore ==
  \/ clutter_event_new("NOTHING")
  \/ \E event \in event_hash \cup {NULL} : clutter_event_copy(event)
  \/ \E event \in event_hash : clutter_event_put(event)
  \/ \E event \in event_hash : clutter_event_queue_push(event)
  \/ clutter_event_queue_peek
  \/ clutter_event_queue_pop
  \/ \E event \in event_hash \cup {NULL} : clutter_event_free(event)

SpecStore == StoreInit /\ [][NextStore]_vars

InputInit == InitQueue /\ ClickAtRest /\ AppAtRest /\ ExtAtRest

NextInput ==
  \E a_event \in InputRecords : clutter_android_handle_input(a_event)

SpecInput == InputInit /\ [][NextInput]_vars

\* the records delivered while the queue is consumed: a key record that is
\* translated and one that is not, a motion record that is translated and
\* one that is not, a record of another type
DispatchRecords ==
  {NativeRecord("KEY", 0, 1, <<1, 0, 0>>, 29),
   NativeRecord("KEY", 0, 4, <<1, 0, 0>>, 29),
   NativeRecord("MOTION", 0, 0, <<1, 1, 2>>, 0),
   NativeRecord("MOTION", 3, 0, <<1, 1, 2>>, 0),
   NativeRecord("OTHER", 0, 0, <<1, 0, 0>>, 0)}

DispatchInit == InitQueue /\ ClickAtRest /\ AppAtRest /\ ExtAtRest

\* input callbacks interleaved with the consumer of the queue
NextDispatch ==
  \/ \E a_event \in DispatchRecords : clutter_android_handle_input(a_event)
  \/ event_get_and_free

SpecDispatch == DispatchInit /\ [][NextDispatch]_vars

KeysymInit ==
  InitQueue /\ ClickAtRest /\ AppAtRest /\ InitStore /\ InitInput /\ InitKeysym

NextKeysym ==
  \/ \E keyval \in Keyvals : keysym_to_unicode_enter(keyval)
  \/ keysym_search_step

SpecKeysym == KeysymInit /\ [][NextKeysym]_vars

\* a call that entered the loop keeps running
SpecKeysymLive ==
  KeysymInit /\ [][NextKeysym]_vars /\ WF_vars(keysym_search_step)

(* ---------------------------------------------------------------------- *)
(* Properties of the event queue                                           *)
(* ---------------------------------------------------------------------- *)
\* the events held by the queue, oldest first
QueueContents ==
  IF events_queue = << >> THEN << >>
  ELSE [i \in 1..Len(events_queue[1]) |->
          events_queue[1][Len(events_queue[1]) + 1 - i]]

QueueHoldsNoEvent == QueueContents = << >>

IsPrefix(s, t) == Len(s) <= Len(t) /\ SubSeq(t, 1, Len(s)) = s

\* C1: strict FIFO.  In every reachable state the popped events are a prefix
\* of the pushed events in push order, and a pop that returns an event
\* returns the oldest pushed event that had not been popped before.
C1_StrictFifo ==
  /\ [](IsPrefix(popped, pushed))
  /\ [][(op' = "pop" /\ ret' # NULL) =>
           /\ Len(popped) < Len(pushed)
           /\ ret' = pushed[Len(popped) + 1]
           /\ popped' = Append(popped, ret')]_vars

\* C1 witness: pushes and pops have interleaved -- two events were popped, a
\* later push is still queued -- and the last pop returned the second push
\* although a different event had been pushed after it.
C1_Witness ==
  /\ op = "pop"
  /\ Len(popped) = 2
  /\ Len(pushed) >= 3
  /\ ret = pushed[2]
  /\ pushed[3] # pushed[2]
  /\ pushed[1] # pushed[2]
  /\ ~QueueHoldsNoEvent

\* C2: peek never mutates the queue.  A peek leaves the queue, its contents
\* and order unchanged; a peek directly after a peek returns the same event;
\* a pop directly after a peek returns exactly the event peek returned.
C2_PeekPure ==
  /\ [][op' = "peek" => (events_queue' = events_queue /\ pushed' = pushed
                          /\ popped' = popped)]_vars
  /\ [][(op = "peek" /\ op' = "peek") => ret' = ret]_vars
  /\ [][(op = "peek" /\ op' = "pop") => ret' = ret]_vars

\* C2 witness: a peek of a queue holding two different events returned the
\* oldest one and left both in the queue
C2_Witness ==
  /\ op = "peek"
  /\ ret # NULL
  /\ Len(QueueContents) >= 2
  /\ QueueContents[1] = ret
  /\ QueueContents[2] # ret

\* C3: the empty queue is a non-error state.  With no event in the queue
\* (never created or drained) pop and peek return NULL and the queue stays
\* empty; and a pop directly after check_pending returns an event exactly
\* when check_pending returned TRUE.
C3_EmptyQueue ==
  /\ [][(QueueHoldsNoEvent /\ op' \in {"pop", "peek"}) =>
           (ret' = NULL /\ QueueHoldsNoEvent')]_vars
  /\ [][op' = "check_pending" => (pending' <=> ~QueueHoldsNoEvent)]_vars
  /\ [][(op = "check_pending" /\ op' = "pop") =>
           (pending <=> ret' # NULL)]_vars

\* C3 witness: the queue exists, was drained by pops, check_pending then
\* answered FALSE and the following pop returned NULL
C3_Witness ==
  /\ op = "pop"
  /\ ret = NULL
  /\ pending = FALSE
  /\ events_queue = << << >> >>
  /\ Len(popped) >= 1

(* ---------------------------------------------------------------------- *)
(* Properties of the multi-click synthesis                                 *)
(* ---------------------------------------------------------------------- *)
\* the record a slot holds
Slot(i) == [time |-> button_click_time[i], button |-> button_number[i],
            x |-> button_x[i], y |-> button_y[i]]

EmptySlot == [time |-> 0, button |-> -1, x |-> 0, y |-> 0]

PressRecord(p) == [time |-> p.time, button |-> p.button, x |-> p.x, y |-> p.y]

\* a press step happened (the parity of the press count flipped)
PressStep == press_tick' # press_tick

SynthType == IF emitted = << >> THEN "NOTHING" ELSE emitted[1].type

\* the press is the same button as, and within the click distance in x and
\* in y of, the record r
NearRecord(p, r) ==
  /\ p.button = r.button
  /\ ABS(p.x - r.x) <= double_click_distance
  /\ ABS(p.y - r.y) <= double_click_distance

\* an x or y offset between p and r exceeds the click distance
FartherThanClickDistance(p, r) ==
  \/ ABS(p.x - r.x) > double_click_distance
  \/ ABS(p.y - r.y) > double_click_distance

\* C4: the three-branch rule.  For the press P of a step and the ClickState
\* before it: (1) P less than 2*DoubleClickInterval after slot 1 and near
\* slot 1: exactly a TripleButtonPress copy of P is emitted and both slots
\* are empty afterwards; (2) else P less than DoubleClickInterval after slot
\* 0 and near slot 0: exactly a DoubleButtonPress copy of P is emitted, slot
\* 1 takes the old slot 0 and slot 0 takes P; (3) else nothing is emitted,
\* slot 1 is empty and slot 0 takes P.  Never more than one event per press.
C4_ThreeBranchRule ==
  [][PressStep =>
       LET P == press_log'[1]
           triple == /\ P.time - Slot(1).time < 2 * double_click_time
                     /\ NearRecord(P, Slot(1))
           double == /\ P.time - Slot(0).time < double_click_time
                     /\ NearRecord(P, Slot(0))
       IN  /\ Len(emitted') <= 1
           /\ IF triple
                THEN /\ emitted' = << [P EXCEPT !.type = "3BUTTON_PRESS"] >>
                     /\ Slot(0)' = EmptySlot
                     /\ Slot(1)' = EmptySlot
              ELSE IF double
                THEN /\ emitted' = << [P EXCEPT !.type = "2BUTTON_PRESS"] >>
                     /\ Slot(1)' = Slot(0)
                     /\ Slot(0)' = PressRecord(P)
              ELSE /\ emitted' = << >>
                   /\ Slot(1)' = EmptySlot
                   /\ Slot(0)' = PressRecord(P)]_vars

\* C4 witness: a TripleButtonPress was emitted for a press that also passed
\* the double-click test against the press before it (the triple branch won)
C4_Witness ==
  /\ SynthType = "3BUTTON_PRESS"
  /\ Len(press_log) = 2
  /\ press_log[1].time < press_log[2].time + double_click_time
  /\ NearRecord(press_log[1], PressRecord(press_log[2]))
  /\ press_log[1] # press_log[2]

\* C5: after a press synthesized a TripleButtonPress both slots are empty
\* (button -1, time and coordinates 0), and the next press, whatever it is,
\* synthesizes nothing.
C5_AfterTriple ==
  /\ [](SynthType = "3BUTTON_PRESS" =>
          (Slot(0) = EmptySlot /\ Slot(1) = EmptySlot))
  /\ [][(SynthType = "3BUTTON_PRESS" /\ PressStep) => emitted' = << >>]_vars

\* C5 witness: a press equal to the press before it synthesized nothing,
\* which only happens to the press that follows a triple click
C5_Witness ==
  /\ Len(press_log) = 2
  /\ press_log[1] = press_log[2]
  /\ emitted = << >>
  /\ Slot(0) = PressRecord(press_log[1])

\* C6 as claimed: a press whose x or y offset from the immediately preceding
\* press exceeds the click distance synthesizes nothing.
C6_FarFromPrecedingNeverSynthesizes ==
  (Len(press_log) = 2 /\ FartherThanClickDistance(press_log[1], press_log[2]))
     => emitted = << >>

\* C6 amended: a press whose x or y offset from the immediately preceding
\* press exceeds the click distance never synthesizes a DoubleButtonPress,
\* and a press synthesizes a TripleButtonPress only if it is within the
\* click distance, in x and in y, of the press recorded in slot 1;
\* whatever the timestamps.
C6_DistanceGuardsSynthesis ==
  /\ []((Len(press_log) = 2
          /\ FartherThanClickDistance(press_log[1], press_log[2]))
        => SynthType # "2BUTTON_PRESS")
  /\ [][(PressStep /\ FartherThanClickDistance(press_log'[1], Slot(1)))
          => emitted' = << >> \/ emitted'[1].type # "3BUTTON_PRESS"]_vars
  /\ [][(PressStep /\ FartherThanClickDistance(press_log'[1], Slot(0)))
          => emitted' = << >> \/ emitted'[1].type # "2BUTTON_PRESS"]_vars

\* C6 witness: a TripleButtonPress was synthesized for a press that is
\* farther than the click distance from the press right before it
C6_Witness ==
  /\ SynthType = "3BUTTON_PRESS"
  /\ Len(press_log) = 2
  /\ FartherThanClickDistance(press_log[1], press_log[2])

\* C7: slot 0 is empty or holds the most recent press, slot 1 is empty or
\* holds the press right before that one, and slot 1 is empty whenever
\* slot 0 is.
C7_SlotInvariant ==
  /\ \/ Slot(0) = EmptySlot
     \/ Len(press_log) >= 1 /\ Slot(0) = PressRecord(press_log[1])
  /\ \/ Slot(1) = EmptySlot
     \/ Len(press_log) >= 2 /\ Slot(1) = PressRecord(press_log[2])
  /\ Slot(0) = EmptySlot => Slot(1) = EmptySlot

\* C7 witness: after a double click both slots are occupied, by the last
\* two presses, which differ
C7_Witness ==
  /\ Len(press_log) = 2
  /\ press_log[1] # press_log[2]
  /\ Slot(0) = PressRecord(press_log[1])
  /\ Slot(1) = PressRecord(press_log[2])
  /\ Slot(1) # EmptySlot

(* ---------------------------------------------------------------------- *)
(* Properties of the command dispatcher                                    *)
(* ---------------------------------------------------------------------- *)
\* a step of clutter_android_handle_cmd: run did not move
CmdStep == run_pc' = run_pc

\* C8: a WindowTerminate handled while a wait-for-window handle is active
\* wakes the waiter and leaves the process alive; handled without a waiter
\* it quits the toolkit main loop and terminates the process.
C8_TermWindowSparesWaiter ==
  last.cmd = "TERM_WINDOW" =>
    IF last.had_waiter
      THEN wait_for_window = "quit" /\ alive
      ELSE main_quit /\ ~alive

\* C9: on WindowInit with a native window present Ready is emitted exactly
\* once; have_window becomes TRUE if Ready was accepted and keeps its value
\* otherwise; the wait loop is quit exactly when a wait handle is active,
\* accepted or not.  No other step changes have_window and it never goes
\* back to FALSE.
C9_WindowInit ==
  /\ []((last.cmd = "INIT_WINDOW" /\ last.window # << >>) =>
          /\ last.ready_emitted = 1
          /\ last.accepted => have_window
          /\ ~last.accepted => have_window = last.had_window
          /\ last.woke <=> last.had_waiter)
  /\ [][(CmdStep /\ last'.cmd = "INIT_WINDOW" /\ last'.window # << >>) =>
          /\ have_window' = (IF last'.accepted THEN TRUE ELSE have_window)
          /\ wait_for_window' = (IF wait_for_window = "NULL" THEN "NULL"
                                 ELSE "quit")]_vars
  /\ [][have_window' # have_window =>
          (CmdStep /\ last'.cmd = "INIT_WINDOW" /\ last'.window # << >>)]_vars
  /\ [][have_window => have_window']_vars

\* C9 witness: Ready was refused on a WindowInit with a window while run was
\* waiting: have_window is still FALSE and the wait loop was quit all the same
C9_Witness ==
  /\ last.cmd = "INIT_WINDOW"
  /\ last.window # << >>
  /\ ~last.accepted
  /\ last.had_waiter
  /\ ~have_window
  /\ wait_for_window = "quit"
  /\ run_pc = "waiting"

C11_NoWindowNoOp ==
  /\ []((last.cmd \in {"INIT_WINDOW", "WINDOW_RESIZED", "WINDOW_REDRAW_NEEDED"}
          /\ last.window = << >>) =>
          /\ last.ready_emitted = 0
          /\ ~last.woke
          /\ ~last.resized
          /\ ~last.relayout
          /\ have_window = last.had_window
          /\ stage_size = last.stage_before
          /\ alive)
  /\ [][(CmdStep /\ last'.window = << >>
          /\ last'.cmd \in {"INIT_WINDOW", "WINDOW_RESIZED",
                            "WINDOW_REDRAW_NEEDED"}) =>
          UNCHANGED <<have_window, wait_for_window, run_pc, alive, main_quit,
                      stage_size, onscreen_size>>]_vars

\* C11 witness: a WindowInit without a window arrived while run was waiting:
\* run still waits, have_window is still FALSE and nothing was emitted
C11_Witness ==
  /\ last.cmd = "INIT_WINDOW"
  /\ last.window = << >>
  /\ last.had_waiter
  /\ wait_for_window = "running"
  /\ run_pc = "waiting"
  /\ ~have_window
  /\ last.ready_emitted = 0

\* C18: run called without a window creates the wait handle and blocks; it
\* goes on to the main loop only once the wait loop was quit, which only a
\* WindowInit with a window present or a WindowTerminate does; the handle is
\* cleared when the wait ends and exists only during the wait.  Called with
\* have_window TRUE it enters the main loop at once without a handle.
C18_WaitForFirstWindow ==
  /\ [][(run_pc = "not_called" /\ run_pc' # "not_called") =>
          IF have_window
            THEN run_pc' = "main" /\ wait_for_window' = "NULL"
            ELSE run_pc' = "waiting" /\ wait_for_window' = "running"]_vars
  /\ [][(run_pc = "waiting" /\ run_pc' # "waiting") =>
          /\ wait_for_window = "quit"
          /\ run_pc' = "main"
          /\ wait_for_window' = "NULL"]_vars
  /\ [][(wait_for_window = "running" /\ wait_for_window' # "running") =>
          /\ CmdStep
          /\ wait_for_window' = "quit"
          /\ \/ last'.cmd = "INIT_WINDOW" /\ last'.window # << >>
             \/ last'.cmd = "TERM_WINDOW"]_vars
  /\ [](wait_for_window # "NULL" <=> run_pc = "waiting")

\* C18 witness: run waited, a WindowInit with a window woke it, and it is
\* now in the main loop with the handle cleared
C18_Witness ==
  /\ run_pc = "main"
  /\ wait_for_window = "NULL"
  /\ last.cmd = "INIT_WINDOW"
  /\ last.had_waiter
  /\ last.woke
  /\ alive

\* C19: GainedFocus, LostFocus, ContentRectChanged, Start, Stop, Pause and
\* Destroy change no state: have_window, the wait handle, the stage and
\* surface sizes, the event queue and the process being alive all keep
\* their values.
C19_LoggedCmdsChangeNothing ==
  /\ [][(CmdStep /\ last'.cmd \in LoggedCmds) =>
          /\ UNCHANGED <<have_window, wait_for_window, run_pc, alive,
                         main_quit, stage_size, onscreen_size>>
          /\ UNCHANGED queue_vars]_vars
  /\ [](last.cmd \in LoggedCmds =>
          /\ alive
          /\ have_window = last.had_window
          /\ stage_size = last.stage_before
          /\ ~last.woke /\ ~last.resized /\ ~last.relayout
          /\ last.ready_emitted = 0)

\* C19 witness: a Destroy was handled while run was waiting for its window;
\* the process lives and run still waits
C19_Witness ==
  /\ last.cmd = "DESTROY"
  /\ last.had_waiter
  /\ wait_for_window = "running"
  /\ run_pc = "waiting"
  /\ alive
  /\ ~main_quit


(* ---------------------------------------------------------------------- *)
(* Properties of the event store                                           *)
(* ---------------------------------------------------------------------- *)
\* C16: clutter_event_copy of an allocated event returns an event that was
\* not allocated before (so it differs from the source and from every other
\* event), whose fields all equal the source's, and leaves the source as it
\* was; and afterwards writing or freeing one event leaves every other
\* allocated event allocated and its fields unchanged -- in particular the
\* source when the copy is written or freed, and the copy when the source is.
C16_CopyIsIndependent ==
  /\ [][(ev_last'.op = "copy" /\ ev_last'.arg # NULL /\ ev_last' # ev_last) =>
           /\ ev_last'.ret \notin event_hash
           /\ ev_last'.ret # ev_last'.arg
           /\ ev_last'.ret \in event_hash'
           /\ ev_last'.arg \in event_hash'
           /\ heap'[ev_last'.ret] = heap[ev_last'.arg]
           /\ heap'[ev_last'.arg] = heap[ev_last'.arg]]_vars
  /\ [][ev_last'.op \in {"set_time", "free"} =>
           \A e \in event_hash \ {ev_last'.arg} :
              e \in event_hash' /\ heap'[e] = heap[e]]_vars
  /\ [](DOMAIN heap = event_hash)

\* C16 witness: an event whose time was written was copied, the copy holds
\* the written time, and the source is still allocated beside it.
C16_Witness ==
  /\ ev_last.op = "copy"
  /\ ev_last.arg \in event_hash
  /\ ev_last.ret \in event_hash \ {ev_last.arg}
  /\ heap[ev_last.arg].time # 0
  /\ heap[ev_last.ret] = heap[ev_last.arg]


\* C17: no event is reclaimed while the queue still references it -- every
\* event held by the queue is in the registry event_hash.
C17_QueuedEventsAreLive ==
  \A i \in 1..Len(QueueContents) : QueueContents[i] \in event_hash


(* ---------------------------------------------------------------------- *)
(* Properties of the Android input handler                                 *)
(* ---------------------------------------------------------------------- *)
\* the event filled in for the input record handled last
LastEvent == heap[last_input.event]

\* the event of the input record handled last is the newest in the queue
LastEventQueued ==
  /\ QueueContents # << >>
  /\ QueueContents[Len(QueueContents)] = last_input.event

LastEventNotQueued ==
  \A i \in 1..Len(QueueContents) : QueueContents[i] # last_input.event

\* the action of the record with the bits above the low eight cleared
MaskedAction == last_input.a_event.action % 256

PointerButtonFrom(type) ==
  /\ last_input.process
  /\ LastEvent.type = type
  /\ LastEvent.button = 1
  /\ LastEvent.click_count = 1
  /\ LastEvent.time = last_input.a_event.time
  /\ LastEvent.x = last_input.a_event.x
  /\ LastEvent.y = last_input.a_event.y
  /\ LastEventQueued

\* C12: a motion record whose masked action is Down (0) becomes a
\* BUTTON_PRESS, Up (1) a BUTTON_RELEASE, both with button 1, click count 1
\* and the record's time, x and y, and Move (2) a MOTION, and the event is
\* queued; for every other masked action the translator reports none, the
\* event keeps the type NOTHING and is not queued.
C12_MotionTranslation ==
  last_input.a_event.type = "MOTION" =>
    CASE MaskedAction = 0 -> PointerButtonFrom("BUTTON_PRESS")
      [] MaskedAction = 1 -> PointerButtonFrom("BUTTON_RELEASE")
      [] MaskedAction = 2 -> /\ last_input.process
                             /\ LastEvent.type = "MOTION"
                             /\ LastEventQueued
      [] OTHER -> /\ ~last_input.process
                  /\ LastEvent.type = "NOTHING"
                  /\ LastEventNotQueued

\* C12 witness: after an earlier record was skipped, a Down record whose x
\* and y differ was translated to a queued BUTTON_PRESS carrying them.
C12_Witness ==
  /\ last_input.a_event.type = "MOTION"
  /\ last_input.a_event.action = 0
  /\ last_input.a_event.x # last_input.a_event.y
  /\ PointerButtonFrom("BUTTON_PRESS")
  /\ \E e \in event_hash : heap[e].type = "NOTHING"


\* C13: every event a translator produced carries the time of the native
\* record and its modifier bitmask (meta state) unchanged.
C13_TimeAndModifiersVerbatim ==
  last_input.process =>
    /\ LastEvent.time = last_input.a_event.time
    /\ LastEvent.modifier_state = last_input.a_event.meta_state

\* C14: a key record whose key action is up becomes a KEY_RELEASE and one
\* whose key action is down becomes a KEY_PRESS.
C14_KeyActionDecidesType ==
  last_input.a_event.type = "KEY" =>
    /\ last_input.a_event.action = 1 =>
          last_input.process /\ LastEvent.type = "KEY_RELEASE"
    /\ last_input.a_event.action = 0 =>
          last_input.process /\ LastEvent.type = "KEY_PRESS"

\* C15 as stated: handling a key or motion record leaves the stage
\* association of the pointer device as it was.
C15_PointerStageUntouched ==
  last_input.a_event.type \in {"KEY", "MOTION"} =>
    pointer_stage = last_input.stage_before

\* C15: translating a key record changes nothing outside the event;
\* translating a motion record, recognized or not, associates the pointer
\* device with the stage of the event and changes nothing else.  Neither
\* touches the ClickState, and the queue changes only by the push of the
\* handler after a translator reported an event: it holds exactly the
\* events reported, in order, and no event a translator skipped.
C15_TranslatorEffects ==
  /\ last_input.a_event.type = "KEY" => pointer_stage = last_input.stage_before
  /\ last_input.a_event.type = "MOTION" => pointer_stage = LastEvent.stage
  /\ last_input.a_event.type = "OTHER" => pointer_stage = last_input.stage_before
  /\ ClickAtRest
  /\ QueueContents = pushed
  /\ \A e \in event_hash :
        (heap[e].type = "NOTHING") <=>
           (\A i \in 1..Len(QueueContents) : QueueContents[i] # e)

\* C15 witness: an unrecognized motion record was skipped, yet the pointer
\* device, which had no stage, is now associated with the stage of the
\* event; earlier a key record was translated without changing it.
C15_Witness ==
  /\ last_input.a_event.type = "MOTION"
  /\ ~last_input.process
  /\ last_input.stage_before = "NULL"
  /\ pointer_stage = "stage"
  /\ \E e \in event_hash : heap[e].type \in {"KEY_PRESS", "KEY_RELEASE"}


(* ---------------------------------------------------------------------- *)
(* Properties of clutter_keysym_to_unicode                                 *)
(* ---------------------------------------------------------------------- *)
\* the reference lookup
KeysymReference(table, keyval) ==
  IF (32 <= keyval /\ keyval <= 126) \/ (160 <= keyval /\ keyval <= 255)
    THEN keyval
  ELSE IF keyval \div (2 ^ 24) = 1
    THEN keyval - 2 ^ 24
  ELSE IF \E i \in 1..Len(table) : table[i].keysym = keyval
    THEN table[CHOOSE i \in 1..Len(table) : table[i].keysym = keyval].ucs
  ELSE 0

\* C20: whenever clutter_keysym_to_unicode has returned, the value returned
\* is the reference lookup of its argument -- the keyval itself in 0x20..0x7e
\* and 0xa0..0xff, else its low 24 bits when its top byte is 0x01, else the
\* ucs of the table entry with that keysym, else 0 -- and every call that
\* enters the binary search leaves it: each iteration narrows max - min.
C20_KeysymLookup ==
  /\ [](ks_pc = "done" => ks_result = KeysymReference(ks_table, ks_keyval))
  /\ [][(ks_pc = "search" /\ ks_pc' = "search") =>
           ks_max' - ks_min' < ks_max - ks_min]_vars
  /\ (ks_pc = "search") ~> (ks_pc = "done")

\* C20 witness: in a table of at least three entries the binary search,
\* after narrowing the range from both of its ends, found the keysym and
\* returned its ucs, which is not the keysym itself.
C20_Witness ==
  /\ ks_pc = "done"
  /\ Len(ks_table) >= 3
  /\ ks_min > 0
  /\ ks_max < Len(ks_table) - 1
  /\ ks_result # 0
  /\ ks_result # ks_keyval
  /\ \E i \in 1..Len(ks_table) :
        ks_table[i].keysym = ks_keyval /\ ks_table[i].ucs = ks_result


\* a step of clutter_android_handle_input: the only step of the input
\* handler and its consumer that allocates an event
InputStep == event_hash' \ event_hash # {}

\* the record is a key record or a motion record its translator accepts
TranslatorSucceeds(r) ==
  \/ r.type = "KEY" /\ r.meta_state \in {0, 1, 2}
  \/ r.type = "MOTION" /\ r.action % 256 \in {0, 1, 2}

\* C21: a call of clutter_android_handle_input returns TRUE (1) exactly when
\* the record is a key or motion record whose translator succeeded, and
\* then the queue is the queue before with exactly the new event added as
\* its newest, an event that refers to the default stage; otherwise it
\* returns FALSE (0) and the queue, contents and order, is what it was.
C21_PushIffTranslated ==
  [][InputStep =>
       /\ last_input'.process <=> TranslatorSucceeds(last_input'.a_event)
       /\ last_input'.event \in event_hash' \ event_hash
       /\ IF last_input'.process
            THEN /\ QueueContents' = Append(QueueContents, last_input'.event)
                 /\ heap'[last_input'.event].stage = "stage"
            ELSE events_queue' = events_queue]_vars

\* C21 witness: with an event already queued, a key record was translated
\* and its event queued behind it, and a record of another type has been
\* discarded meanwhile.
C21_Witness ==
  /\ last_input.a_event.type = "KEY"
  /\ last_input.process
  /\ Len(QueueContents) = 2
  /\ QueueContents[2] = last_input.event
  /\ heap[last_input.event].stage = "stage"
  /\ \E e \in event_hash : heap[e].type = "NOTHING" /\ heap[e].unicode_value = 0


\* C22: no orphaned events -- every event in the registry event_hash is
\* held by the queue.
C22_NoOrphanedEvent ==
  \A e \in event_hash :
     \E i \in 1..Len(QueueContents) : QueueContents[i] = e


(* ---------------------------------------------------------------------- *)
(* Runs of presses                                                         *)
(* ---------------------------------------------------------------------- *)
\* C23: in a run of presses that starts with both slots empty, each press
\* with the button and at the position of the one before and less than the
\* double-click interval after it, the k-th press synthesizes nothing when
\* k mod 3 = 1, a DoubleButtonPress when k mod 3 = 2 and a TripleButtonPress
\* when k mod 3 = 0; and whatever the presses, a press synthesizes a
\* TripleButtonPress only if the press before it synthesized a
\* DoubleButtonPress.
C23_ClickCycle ==
  /\ [](click_run = 1 => SynthType = "NOTHING")
  /\ [](click_run = 2 => SynthType = "2BUTTON_PRESS")
  /\ [](click_run = 3 => SynthType = "3BUTTON_PRESS")
  /\ [][(PressStep /\ SynthType' = "3BUTTON_PRESS") =>
           SynthType = "2BUTTON_PRESS"]_vars

\* C23 witness: the fourth press of a run -- it continues the press before
\* it, which had emptied both slots with a triple click, and synthesizes
\* nothing -- at a later time than the press before it.
C23_Witness ==
  /\ click_run = 1
  /\ Len(press_log) = 2
  /\ PressRecord(press_log[1]) = [PressRecord(press_log[2]) EXCEPT
                                     !.time = press_log[1].time]
  /\ press_log[1].time > press_log[2].time
  /\ press_log[1].time < press_log[2].time + double_click_time
  /\ SynthType = "NOTHING"
  /\ Slot(1) = EmptySlot


(* ---------------------------------------------------------------------- *)
(* Entering the main loop                                                  *)
(* ---------------------------------------------------------------------- *)
\* C24: clutter_android_application_run is past the wait and in the main
\* loop only in states where have_window is TRUE.
C24_MainLoopOnlyWithWindow == run_pc = "main" => have_window


(* ---------------------------------------------------------------------- *)
(* Synthetic clicks seen through the accessors                             *)
(* ---------------------------------------------------------------------- *)
\* C25: for the DoubleButtonPress or TripleButtonPress synthesized from a
\* press P, clutter_event_get_time, clutter_event_get_state and
\* clutter_event_get_coords return what they return for P: its time, its
\* modifier state and its coordinates.
C25_AccessorsAgreeWithPress ==
  emitted # << >> =>
    /\ clutter_event_get_time(emitted[1]) = press_log[1].time
    /\ clutter_event_get_state(emitted[1]) = press_log[1].modifier_state
    /\ clutter_event_get_coords(emitted[1]) = <<press_log[1].x, press_log[1].y>>
    /\ clutter_event_get_time(emitted[1]) = clutter_event_get_time(press_log[1])
    /\ clutter_event_get_state(emitted[1]) = clutter_event_get_state(press_log[1])
    /\ clutter_event_get_coords(emitted[1]) = clutter_event_get_coords(press_log[1])


============================================================================
